---- MODULE Spec2Model ----
(***************************************************************************)
(* Contextual matcher of edsnlp: window resolution (get_window), the       *)
(* exclude/include filter (filter_one), the keyed reduction of assignment  *)
(* matches (AssignDict) and the replace/expand resolution (assign_one).    *)
(*                                                                         *)
(* Token indices are 0-based as in the source.  A span is a record         *)
(* [start, end, obj]: the half-open token range [start, end) and the       *)
(* Python object it is ("anchor": the span handed to process_one,          *)
(* "match": a span built by an assign matcher, "new": a span built by the  *)
(* Span(...) constructor inside assign_one).                               *)
(***************************************************************************)
EXTENDS Integers, Sequences, FiniteSets, TLC

\* ---------------------------------------------------------------- bounds
DocLen == 4
MaxOffset == 3
MaxInserts == 3
MaxRules == 2
MaxAssign == 2
MaxList == 3
MaxSources == 2
MaxReruns == 1

\* ---------------------------------------------------------------- values
None == "None"

\* an absent window (window=None)
NoWindow == <<>>

Tokens == 0 .. (DocLen - 1)

Alphabet == {"a", "b", "c"}

Max(a, b) == IF a >= b THEN a ELSE b

Min(a, b) == IF a <= b THEN a ELSE b

SetMin(S) == CHOOSE m \in S : \A n \in S : m <= n

SetMax(S) == CHOOSE m \in S : \A n \in S : m >= n

Span(start, end, obj) == [start |-> start, end |-> end, obj |-> obj]

\* the token indices a span covers
Range(s) == s.start .. (s.end - 1)

VARIABLES
  pc,                \* position of the component in the run being modelled
  doc,               \* the document: the text symbol of each token
  sent,              \* doclike.sent: the sentence enclosing the anchor
  span,              \* the anchor handed to get_window / process_one
  window,            \* get_window argument
  limit_to_sentence, \* get_window argument
  snippet,           \* value returned by get_window
  reduce_mode,       \* AssignDict.reduce_mode: assign name -> reduce mode
  assigned_dict,     \* the AssignDict being filled
  all_assigned_list, \* the match tuples inserted so far, in insertion order
  patterns,          \* self.patterns[source]: the rules of the anchor's source
  include_assigned,  \* self.include_assigned
  assign_as_span,    \* self.assign_as_span
  self_replace_key,  \* self.replace_key[source]
  filtered,          \* value returned by filter_one
  replace_key,       \* local replace_key of assign_one
  kept_ents,         \* the spans assign_one yields, each with its assigned map
  window_locals,     \* the locals start and end of get_window
  matcher_runs,      \* the rules whose matcher filter_one ran, in order
  raised,            \* the exception that left the operation, None if none
  raw_window,        \* the value handed to normalize_window
  full_config,       \* the list of sources handed to the FullConfig validators
  process_spans,     \* process: the anchors still to be handed to process_one
  output,            \* process: the spans yielded so far
  earlier_outputs,   \* what the earlier runs of process on the document left
  cache,             \* the entries of the lru_cache of get_window
  read_key,          \* the key of the last read of the AssignDict
  read_value         \* the value the last read of the AssignDict returned

vars == <<pc, doc, sent, span, window, limit_to_sentence, snippet,
          reduce_mode, assigned_dict, all_assigned_list,
          patterns, include_assigned, assign_as_span, self_replace_key,
          filtered, replace_key, kept_ents,
          window_locals, matcher_runs, raised, raw_window, full_config,
          process_spans, output, earlier_outputs, cache,
          read_key, read_value>>

cfgVars == <<patterns, include_assigned, assign_as_span, self_replace_key>>

runVars == <<filtered, replace_key, kept_ents, matcher_runs, raised>>

winVars == <<window, limit_to_sentence, snippet, window_locals>>

valVars == <<raw_window, full_config>>

procVars == <<process_spans, output, earlier_outputs, cache>>

readVars == <<read_key, read_value>>

dictVars == <<reduce_mode, assigned_dict, all_assigned_list>>

\* ------------------------------------------------------------ get_window
\* Doc.__getitem__ on the slice start:end: negative indices count from the
\* end of the document, then both ends are clamped into 0..len(doc) and the
\* stop is raised to the start.
DocSlice(start, stop) ==
  LET length == DocLen
      st0 == IF start < 0 THEN start + length ELSE start
      st == Min(length, Max(0, st0))
      sp0 == IF stop < 0 THEN stop + length ELSE stop
      sp == Min(length, Max(st, sp0))
  IN Span(st, sp, "match")

\* the locals start and end of get_window with the window offsets applied
\* to the wrong ends of the anchor
start_end_swapped(doclike, w, limit) ==
  LET start_limit == IF limit THEN sent.start ELSE 0
      end_limit == IF limit THEN sent.end ELSE DocLen
  IN [start |-> IF w # NoWindow
                THEN Max(doclike.end + w[1], start_limit)
                ELSE start_limit,
      end |-> IF w # NoWindow
              THEN Min(doclike.start + w[2], end_limit)
              ELSE end_limit]

\* the locals start and end of get_window
start_end(doclike, w, limit) ==
  LET start_limit == IF limit THEN sent.start ELSE 0
      end_limit == IF limit THEN sent.end ELSE DocLen
  IN [start |-> IF w # NoWindow
                THEN Max(doclike.start + w[1], start_limit)
                ELSE start_limit,
      end |-> IF w # NoWindow
              THEN Min(doclike.end + w[2], end_limit)
              ELSE end_limit]

\* the label of the anchor, which names its source
SourceName == "source"

\* the document being processed and a document processed at another time
ThisDoc == "doc"

OtherDoc == "other doc"

\* the key lru_cache builds from the arguments of get_window: a Span
\* hashes and compares on its document, its bounds and its label; the
\* anchors handed to get_window carry the label of their source
cache_key(doclike, w, limit) ==
  [doc |-> ThisDoc, start |-> doclike.start, end |-> doclike.end,
   label |-> SourceName, window |-> w, limit_to_sentence |-> limit]

\* the cache entries under a key, found without comparing the documents
cache_hits_any_doc(key) ==
  {e \in cache : [e.key EXCEPT !.doc = key.doc] = key}

\* the cache entries under a key
cache_hits(key) == {e \in cache : e.key = key}

\* get_window behind its lru_cache: the cached value on a hit, the slice
\* otherwise
get_window(doclike, w, limit) ==
  LET hits == cache_hits(cache_key(doclike, w, limit))
      b == start_end(doclike, w, limit)
  IN IF hits # {} THEN (CHOOSE e \in hits : TRUE).value
     ELSE DocSlice(b.start, b.end)

\* windows as validation leaves them: a pair with before < after
Windows == {w \in (-MaxOffset .. MaxOffset) \X (-MaxOffset .. MaxOffset) :
              w[1] < w[2]}

Sentences == {s \in [start : 0 .. DocLen, end : 0 .. DocLen] : s.start < s.end}

Anchors(s) == {a \in [start : Tokens, end : 1 .. DocLen, obj : {"anchor"}] :
                 s.start <= a.start /\ a.start < a.end /\ a.end <= s.end}

\* a dict with no key
EmptyDict == [k \in {} |-> None]

\* the value None where a span is expected
NoneSpan == Span(-1, -1, "None")

\* a source without rules
NoPatterns == [exclude |-> <<>>, include |-> <<>>, assign |-> <<>>]

\* the pipeline variables while no anchor is being processed
PipelineIdle ==
  /\ patterns = NoPatterns
  /\ include_assigned = FALSE
  /\ assign_as_span = FALSE
  /\ self_replace_key = None
  /\ filtered = NoneSpan
  /\ replace_key = None
  /\ kept_ents = <<>>
  /\ matcher_runs = <<>>
  /\ raised = None

\* the validators have nothing to validate
ValidationIdle ==
  /\ raw_window = NoWindow
  /\ full_config = <<>>

\* the AssignDict has not been read
ReadIdle ==
  /\ read_key = None
  /\ read_value = EmptyDict

\* process is not running and the cache of get_window is empty
ProcessIdle ==
  /\ process_spans = <<>>
  /\ output = <<>>
  /\ earlier_outputs = <<>>
  /\ cache = {}

\* get_window has not been called
NoLocals == [start |-> 0, end |-> 0]

BlankDoc == [t \in Tokens |-> "c"]

InitWindow ==
  /\ pc = "get_window"
  /\ doc = BlankDoc
  /\ sent \in Sentences
  /\ span \in Anchors(sent)
  /\ window \in {NoWindow} \cup Windows
  /\ limit_to_sentence \in BOOLEAN
  /\ snippet = Span(0, 0, "match")
  /\ window_locals = NoLocals
  /\ reduce_mode = EmptyDict
  /\ assigned_dict = EmptyDict
  /\ all_assigned_list = <<>>
  /\ PipelineIdle
  /\ ValidationIdle
  /\ ProcessIdle
  /\ ReadIdle

GetWindow ==
  /\ pc = "get_window"
  /\ snippet' = get_window(span, window, limit_to_sentence)
  /\ window_locals' = start_end(span, window, limit_to_sentence)
  /\ pc' = "done"
  /\ UNCHANGED <<doc, sent, span, window, limit_to_sentence>>
  /\ UNCHANGED dictVars
  /\ UNCHANGED <<cfgVars, runVars, valVars, procVars, readVars>>

NextWindow == GetWindow

SpecWindow == InitWindow /\ [][NextWindow]_vars

\* C8: the range returned by get_window lies inside the anchor's sentence
\* when limit_to_sentence is true and inside the document otherwise.
C8_WindowInBounds ==
  pc = "done" =>
    /\ limit_to_sentence => Range(snippet) \subseteq Range(sent)
    /\ ~limit_to_sentence => Range(snippet) \subseteq Tokens

\* the region get_window may not leave: the anchor's sentence when the
\* window is limited to it, the whole document otherwise
LowerLimit == IF limit_to_sentence THEN sent.start ELSE 0

UpperLimit == IF limit_to_sentence THEN sent.end ELSE DocLen

\* C16: get_window computes start as the larger of the anchor's start plus
\* the "before" offset and the lower limit, and end as the smaller of the
\* anchor's end plus the "after" offset and the upper limit; without a
\* window, start is the lower limit and end the upper limit, and the
\* snippet is the whole permitted region.
C16_StartEndClamped ==
  pc = "done" =>
    IF window = NoWindow
    THEN /\ window_locals.start = LowerLimit
         /\ window_locals.end = UpperLimit
         /\ Range(snippet) = LowerLimit .. (UpperLimit - 1)
    ELSE /\ window_locals.start \in {span.start + window[1], LowerLimit}
         /\ window_locals.start >= span.start + window[1]
         /\ window_locals.start >= LowerLimit
         /\ window_locals.end \in {span.end + window[2], UpperLimit}
         /\ window_locals.end <= span.end + window[2]
         /\ window_locals.end <= UpperLimit

\* a window of a multi-token anchor that is cut at the lower limit and not
\* at the upper one
C16_Witness ==
  /\ pc = "done"
  /\ window # NoWindow
  /\ span.end > span.start + 1
  /\ span.start + window[1] < LowerLimit
  /\ window_locals.start = LowerLimit
  /\ span.end + window[2] < UpperLimit
  /\ window_locals.end = span.end + window[2]

\* ------------------------------------------------------------ AssignDict
\* reduce modes: None keeps every match in a list
ReduceModes == {None, "keep_first", "keep_last"}

NamePool == <<"k1", "k2", "k3", "k4">>

\* the names of the assign rules of the source (unique by validation)
AssignNames == {NamePool[i] : i \in 1 .. MaxAssign}

\* get_text(group_span, ...): the text of the tokens of a span
get_text(s) == [i \in 1 .. (s.end - s.start) |-> doc[s.start + i - 1]]

\* AssignDict.__missing__
missing(key) ==
  IF reduce_mode[key] = None
  THEN [span |-> <<>>, value_span |-> <<>>, value_text |-> <<>>]
  ELSE EmptyDict

\* dict.__getitem__ with the __missing__ hook; the key is not inserted
getitem(d, key) == IF key \in DOMAIN d THEN d[key] ELSE missing(key)

\* dict.__setitem__
dict_setitem(d, key, value) ==
  [k \in DOMAIN d \cup {key} |-> IF k = key THEN value ELSE d[k]]

\* keep_list putting the new match in front of the stored ones
keep_list_prepend(d, key, value) ==
  LET old_values == getitem(d, key)
  IN dict_setitem(d, key,
       [span |-> <<value.span>> \o old_values.span,
        value_span |-> <<value.value_span>> \o old_values.value_span,
        value_text |-> <<value.value_text>> \o old_values.value_text])

keep_list(d, key, value) ==
  LET old_values == getitem(d, key)
  IN dict_setitem(d, key,
       [span |-> old_values.span \o <<value.span>>,
        value_span |-> old_values.value_span \o <<value.value_span>>,
        value_text |-> old_values.value_text \o <<value.value_text>>])

\* keep_first with the comparison of keep_last
keep_first_swapped(d, key, value) ==
  LET old_values == getitem(d, key)
  IN IF "span" \notin DOMAIN old_values
        \/ value.span.start >= old_values.span.start
     THEN dict_setitem(d, key, value)
     ELSE d

keep_first(d, key, value) ==
  LET old_values == getitem(d, key)
  IN IF "span" \notin DOMAIN old_values
        \/ value.span.start <= old_values.span.start
     THEN dict_setitem(d, key, value)
     ELSE d

\* keep_last keeping the stored record when the starts are equal
keep_last_strict(d, key, value) ==
  LET old_values == getitem(d, key)
  IN IF "span" \notin DOMAIN old_values
        \/ value.span.start > old_values.span.start
     THEN dict_setitem(d, key, value)
     ELSE d

keep_last(d, key, value) ==
  LET old_values == getitem(d, key)
  IN IF "span" \notin DOMAIN old_values
        \/ value.span.start >= old_values.span.start
     THEN dict_setitem(d, key, value)
     ELSE d

\* AssignDict.__setitem__ finds no function for the reduce mode of the key
\* in the table of __setitem_options__ and raises KeyError
setitem_raises(key) == reduce_mode[key] \notin ReduceModes

\* AssignDict.__setitem__ storing the new record whatever the stored one
setitem_overwrites(d, key, value) ==
  CASE reduce_mode[key] = None -> keep_list(d, key, value)
    [] reduce_mode[key] = "keep_first" -> dict_setitem(d, key, value)
    [] reduce_mode[key] = "keep_last" -> dict_setitem(d, key, value)

\* AssignDict.__setitem__: dispatch on the reduce mode of the key
setitem(d, key, value) ==
  CASE reduce_mode[key] = None -> keep_list(d, key, value)
    [] reduce_mode[key] = "keep_first" -> keep_first(d, key, value)
    [] reduce_mode[key] = "keep_last" -> keep_last(d, key, value)

\* the record assign_one stores for a match tuple
AssignValue(assigned) ==
  [span |-> assigned.full_match_span,
   value_span |-> assigned.group_span,
   value_text |-> get_text(assigned.group_span)]

\* a match tuple (group_span, full_match_span, value_key): the group is
\* token p, the full match starts lead tokens before it
MatchTuple(p, lead, key) ==
  [group_span |-> Span(p, p + 1, "match"),
   full_match_span |-> Span(p - lead, p + 1, "match"),
   value_key |-> key]

MatchTuples == {MatchTuple(p, 0, key) : p \in Tokens, key \in AssignNames} \cup
               {MatchTuple(p, 1, key) : p \in Tokens \ {0}, key \in AssignNames}

MixedDoc == [t \in Tokens |-> IF t % 2 = 0 THEN "a" ELSE "b"]

InitDict ==
  /\ pc = "fold"
  /\ doc = MixedDoc
  /\ sent = [start |-> 0, end |-> DocLen]
  /\ span = Span(0, 1, "anchor")
  /\ window = NoWindow
  /\ limit_to_sentence = TRUE
  /\ snippet = Span(0, 0, "match")
  /\ window_locals = NoLocals
  /\ reduce_mode \in [AssignNames -> ReduceModes]
  /\ assigned_dict = EmptyDict
  /\ all_assigned_list = <<>>
  /\ PipelineIdle
  /\ ValidationIdle
  /\ ProcessIdle
  /\ ReadIdle

\* one pass of the loop of assign_one that folds a match into the AssignDict
SetItem ==
  /\ pc = "fold"
  /\ Len(all_assigned_list) < MaxInserts
  /\ \E assigned \in MatchTuples :
       /\ assigned_dict' = setitem(assigned_dict, assigned.value_key,
                                   AssignValue(assigned))
       /\ all_assigned_list' = Append(all_assigned_list, assigned)
  /\ UNCHANGED <<pc, doc, sent, span, reduce_mode>>
  /\ UNCHANGED <<winVars, cfgVars, runVars, valVars, procVars, readVars>>

NextDict == SetItem

SpecDict == InitDict /\ [][NextDict]_vars

\* the match tuples inserted under a key, in insertion order
InsertedUnder(key) ==
  SelectSeq(all_assigned_list, LAMBDA t : t.value_key = key)

SeqRange(q) == {q[i] : i \in 1 .. Len(q)}

\* C9: under keep_first the record stored for a key is an inserted record
\* with the minimum full-match start among the records inserted under that
\* key; under keep_last it is one with the maximum full-match start.
C9_KeepFirstLastExtremum ==
  \A key \in AssignNames :
    LET ins == InsertedUnder(key)
        starts == {ins[i].full_match_span.start : i \in 1 .. Len(ins)}
    IN (reduce_mode[key] # None /\ Len(ins) > 0) =>
         /\ key \in DOMAIN assigned_dict
         /\ assigned_dict[key] \in {AssignValue(t) : t \in SeqRange(ins)}
         /\ reduce_mode[key] = "keep_first" =>
              assigned_dict[key].span.start = SetMin(starts)
         /\ reduce_mode[key] = "keep_last" =>
              assigned_dict[key].span.start = SetMax(starts)

\* starts inserted under one key in the order middle, lowest, highest
\* (the shape of 5, 2, 8)
C9_Witness ==
  \E key \in AssignNames :
    LET ins == InsertedUnder(key)
    IN /\ reduce_mode[key] = "keep_first"
       /\ Len(ins) = 3
       /\ ins[2].full_match_span.start < ins[1].full_match_span.start
       /\ ins[1].full_match_span.start < ins[3].full_match_span.start
       /\ assigned_dict[key].span.start = ins[2].full_match_span.start

\* C10: in list mode the three stored lists have one entry per insertion
\* under the key, in insertion order, entry i of each list coming from the
\* i-th insertion.
C10_ListModeParallelLists ==
  \A key \in AssignNames :
    LET ins == InsertedUnder(key)
        stored == getitem(assigned_dict, key)
    IN reduce_mode[key] = None =>
         /\ Len(stored.span) = Len(ins)
         /\ Len(stored.value_span) = Len(ins)
         /\ Len(stored.value_text) = Len(ins)
         /\ \A i \in 1 .. Len(ins) :
              /\ stored.span[i] = ins[i].full_match_span
              /\ stored.value_span[i] = ins[i].group_span
              /\ stored.value_text[i] = get_text(ins[i].group_span)

\* three insertions under one list-mode key, not in document order
C10_Witness ==
  \E key \in AssignNames :
    LET ins == InsertedUnder(key)
    IN /\ reduce_mode[key] = None
       /\ Len(ins) = 3
       /\ ins[2].full_match_span.start < ins[1].full_match_span.start
       /\ ins[1].group_span # ins[3].group_span
       /\ Len(assigned_dict[key].span) = 3

\* the match tuple of the insertion a step makes
Incoming == all_assigned_list'[Len(all_assigned_list')]

\* the record stored under a key after a step is the incoming one if the
\* step replaces and the one stored before otherwise
StoredAfter(key, replaces) ==
  assigned_dict'[key] = IF replaces THEN AssignValue(Incoming)
                        ELSE assigned_dict[key]

\* C19: an insertion under a keep_first key replaces the stored record
\* exactly when the key holds no record yet or the incoming full-match start
\* is lower than or equal to the stored one; under keep_last, when the key
\* holds none or the incoming start is greater than or equal to the stored
\* one. Of two candidates with the same start the later one is retained.
C19_ReplaceOnEqual ==
  [][\A key \in AssignNames :
       (/\ Len(all_assigned_list') = Len(all_assigned_list) + 1
        /\ Incoming.value_key = key
        /\ reduce_mode[key] # None) =>
         /\ key \in DOMAIN assigned_dict'
         /\ reduce_mode[key] = "keep_first" =>
              StoredAfter(key,
                \/ key \notin DOMAIN assigned_dict
                \/ Incoming.full_match_span.start
                     <= assigned_dict[key].span.start)
         /\ reduce_mode[key] = "keep_last" =>
              StoredAfter(key,
                \/ key \notin DOMAIN assigned_dict
                \/ Incoming.full_match_span.start
                     >= assigned_dict[key].span.start)]_vars

\* two candidates with the same start and different values inserted under a
\* keep_last key after one that starts later: the first is stored
\* unchanged until the third replaces the second
C19_Witness ==
  \E key \in AssignNames :
    LET ins == InsertedUnder(key)
    IN /\ reduce_mode[key] = "keep_last"
       /\ Len(ins) = 3
       /\ ins[2].full_match_span.start < ins[1].full_match_span.start
       /\ ins[3].full_match_span.start = ins[1].full_match_span.start
       /\ ins[3].group_span # ins[1].group_span
       /\ assigned_dict[key] = AssignValue(ins[3])

\* the dict after the insertions of a list of match tuples from position i
RECURSIVE insert_all(_, _, _)
insert_all(q, i, d) ==
  IF i > Len(q) THEN d
  ELSE insert_all(q, i + 1, setitem(d, q[i].value_key, AssignValue(q[i])))

\* the orders in which n candidates can be inserted
Orders(n) == {f \in [1 .. n -> 1 .. n] : \A i, j \in 1 .. n : i # j => f[i] # f[j]}

Reordered(q, f) == [i \in 1 .. Len(q) |-> q[f[i]]]

\* the record a key holds after the candidates inserted under it have been
\* inserted in another order
StoredInOrder(key, f) ==
  getitem(insert_all(Reordered(InsertedUnder(key), f), 1, EmptyDict), key)

\* the candidates inserted under a key that have the start of the stored
\* record
Extremal(key) ==
  {t \in SeqRange(InsertedUnder(key)) :
     t.full_match_span.start = assigned_dict[key].span.start}

\* C18 as stated: under keep_first and keep_last the record stored for a
\* key is the same in whatever order the candidates of the key are
\* inserted, candidates sharing the same full-match start included.
C18_OrderIndependent ==
  \A key \in AssignNames :
    reduce_mode[key] # None =>
      \A f \in Orders(Len(InsertedUnder(key))) :
        StoredInOrder(key, f) = getitem(assigned_dict, key)

\* C18 amended: under keep_first and keep_last the full-match start of the
\* stored record is the same in whatever order the candidates of the key
\* are inserted, and the whole record is the same when the candidates with
\* that start all carry the same value span.
C18_OrderIndependentUpToTies ==
  \A key \in AssignNames :
    (reduce_mode[key] # None /\ Len(InsertedUnder(key)) > 0) =>
      \A f \in Orders(Len(InsertedUnder(key))) :
        /\ StoredInOrder(key, f).span.start = assigned_dict[key].span.start
        /\ Cardinality({AssignValue(t) : t \in Extremal(key)}) = 1 =>
             StoredInOrder(key, f) = assigned_dict[key]

\* three candidates with distinct starts inserted under a keep_first key,
\* the lowest first: the order of insertion is not the order of the starts
\* and the record of the lowest is stored
C18_Witness ==
  \E key \in AssignNames :
    LET ins == InsertedUnder(key)
    IN /\ reduce_mode[key] = "keep_first"
       /\ Len(ins) = 3
       /\ ins[1].full_match_span.start < ins[3].full_match_span.start
       /\ ins[3].full_match_span.start < ins[2].full_match_span.start
       /\ assigned_dict[key] = AssignValue(ins[1])

\* ------------------------------------------------------------ filter_one
\* RegexMatcher over a snippet for an exclude/include rule: the rule's
\* regex matches the tokens whose text is rule.regex
has_match(rule, snip) == \E p \in Range(snip) : doc[p] = rule.regex

rule_window(sp, rule) == get_window(sp, rule.window, rule.limit_to_sentence)

\* the exclude loop from rule i on: to_keep after the loop (a match sets
\* to_keep to False and breaks)
RECURSIVE exclude_loop(_, _, _)
exclude_loop(sp, i, to_keep) ==
  IF i > Len(patterns.exclude) THEN to_keep
  ELSE IF has_match(patterns.exclude[i], rule_window(sp, patterns.exclude[i]))
       THEN FALSE
       ELSE exclude_loop(sp, i + 1, to_keep)

\* the include loop with to_keep set to True by a matching include rule
RECURSIVE include_loop_resets(_, _, _)
include_loop_resets(sp, i, to_keep) ==
  IF i > Len(patterns.include) THEN to_keep
  ELSE IF ~has_match(patterns.include[i],
                     rule_window(sp, patterns.include[i]))
       THEN FALSE
       ELSE include_loop_resets(sp, i + 1, TRUE)

\* the include loop from rule i on (a rule without match sets to_keep to
\* False and breaks)
RECURSIVE include_loop(_, _, _)
include_loop(sp, i, to_keep) ==
  IF i > Len(patterns.include) THEN to_keep
  ELSE IF ~has_match(patterns.include[i],
                     rule_window(sp, patterns.include[i]))
       THEN FALSE
       ELSE include_loop(sp, i + 1, to_keep)

filter_one(sp) ==
  LET to_keep == include_loop(sp, 1, exclude_loop(sp, 1, TRUE))
  IN IF to_keep THEN sp ELSE NoneSpan

\* the exclude rules whose matcher the exclude loop runs from rule i on:
\* every rule up to the first one that matches
RECURSIVE exclude_runs(_, _)
exclude_runs(sp, i) ==
  IF i > Len(patterns.exclude) THEN <<>>
  ELSE <<[kind |-> "exclude", rule |-> i]>> \o
       (IF has_match(patterns.exclude[i],
                     rule_window(sp, patterns.exclude[i]))
        THEN <<>>
        ELSE exclude_runs(sp, i + 1))

\* the include rules whose matcher the include loop runs from rule i on:
\* every rule up to the first one without match
RECURSIVE include_runs(_, _)
include_runs(sp, i) ==
  IF i > Len(patterns.include) THEN <<>>
  ELSE <<[kind |-> "include", rule |-> i]>> \o
       (IF ~has_match(patterns.include[i],
                      rule_window(sp, patterns.include[i]))
        THEN <<>>
        ELSE include_runs(sp, i + 1))

\* the matcher runs of filter_one: the exclude loop, then the include loop
filter_runs(sp) == exclude_runs(sp, 1) \o include_runs(sp, 1)

\* windows offered to the rules of the pipeline configurations
RuleWindows == {NoWindow, <<-2, 0>>, <<0, 2>>}

ExcludeRules == [regex : {"a"}, window : RuleWindows,
                 limit_to_sentence : {TRUE}]

IncludeRules == [regex : {"b"}, window : RuleWindows,
                 limit_to_sentence : {TRUE}]

SeqsUpTo(S, n) == UNION {[1 .. k -> S] : k \in 0 .. n}

Docs == [Tokens -> Alphabet]

WholeDoc == [start |-> 0, end |-> DocLen]

OneTokenAnchors == {Span(x, x + 1, "anchor") : x \in Tokens}

InitFilter ==
  /\ pc = "filter_one"
  /\ doc \in Docs
  /\ sent = WholeDoc
  /\ span \in OneTokenAnchors
  /\ window = NoWindow
  /\ limit_to_sentence = TRUE
  /\ snippet = Span(0, 0, "match")
  /\ window_locals = NoLocals
  /\ reduce_mode = EmptyDict
  /\ assigned_dict = EmptyDict
  /\ all_assigned_list = <<>>
  /\ patterns \in [exclude : SeqsUpTo(ExcludeRules, MaxRules),
                   include : SeqsUpTo(IncludeRules, MaxRules),
                   assign : {<<>>}]
  /\ include_assigned = FALSE
  /\ assign_as_span = FALSE
  /\ self_replace_key = None
  /\ filtered = NoneSpan
  /\ replace_key = None
  /\ kept_ents = <<>>
  /\ matcher_runs = <<>>
  /\ raised = None
  /\ ValidationIdle
  /\ ProcessIdle
  /\ ReadIdle

FilterOne ==
  /\ pc = "filter_one"
  /\ filtered' = filter_one(span)
  /\ matcher_runs' = filter_runs(span)
  /\ pc' = "filtered"
  /\ UNCHANGED <<doc, sent, span, replace_key, kept_ents, raised>>
  /\ UNCHANGED <<winVars, dictVars, cfgVars, valVars, procVars, readVars>>

NextFilter == FilterOne

SpecFilter == InitFilter /\ [][NextFilter]_vars

\* a rule has a match inside its resolved window
RuleHit(rule) ==
  \E p \in Tokens :
    /\ p \in Range(get_window(span, rule.window, rule.limit_to_sentence))
    /\ doc[p] = rule.regex

ExcludeHit == \E i \in 1 .. Len(patterns.exclude) : RuleHit(patterns.exclude[i])

IncludeMiss ==
  \E i \in 1 .. Len(patterns.include) : ~RuleHit(patterns.include[i])

\* C1: filter_one keeps the anchor exactly when no exclude rule has a match
\* in its window and every include rule has one; a kept anchor is returned
\* unchanged.
C1_FilterKeepsIff ==
  pc = "filtered" =>
    /\ (filtered # NoneSpan) <=> (~ExcludeHit /\ ~IncludeMiss)
    /\ filtered # NoneSpan => filtered = span

\* an exclude rule matches while every include rule matches too, after an
\* exclude rule that did not match: the anchor is dropped
C1_Witness ==
  /\ pc = "filtered"
  /\ Len(patterns.exclude) = 2
  /\ Len(patterns.include) >= 1
  /\ ~RuleHit(patterns.exclude[1])
  /\ RuleHit(patterns.exclude[2])
  /\ ~IncludeMiss
  /\ filtered = NoneSpan

\* the rule of a matcher run
RunRule(run) ==
  IF run.kind = "exclude" THEN patterns.exclude[run.rule]
  ELSE patterns.include[run.rule]

\* the matcher run reaches the verdict: an exclude rule that matches or an
\* include rule that does not
RunRejects(run) ==
  IF run.kind = "exclude" THEN RuleHit(RunRule(run)) ELSE ~RuleHit(RunRule(run))

\* C17: filter_one runs the matchers in configuration order, the exclude
\* rules before the include rules; after an exclude rule matches or an
\* include rule finds no match, no further matcher runs.
C17_ShortCircuit ==
  pc = "filtered" =>
    /\ \A m, n \in 1 .. Len(matcher_runs) :
         m < n =>
           \/ matcher_runs[m].kind = "exclude" /\ matcher_runs[n].kind = "include"
           \/ /\ matcher_runs[m].kind = matcher_runs[n].kind
              /\ matcher_runs[m].rule < matcher_runs[n].rule
    /\ \A n \in 1 .. Len(matcher_runs) :
         RunRejects(matcher_runs[n]) => n = Len(matcher_runs)

\* ------------------------------------------------------------ assign_one
Abs(n) == IF n < 0 THEN -n ELSE n

\* the assign rule of the source that carries a name
AssignRule(name) ==
  LET i == CHOOSE j \in 1 .. Len(patterns.assign) :
             patterns.assign[j].name = name
  IN patterns.assign[i]

\* RegexMatcher.match over a snippet for an assign rule, left to right and
\* without overlap: the group is a token whose text is rule.regex, the full
\* match starts rule.lead tokens before the group
RECURSIVE regex_match(_, _, _)
regex_match(rule, from, snip) ==
  LET starts == {q \in from .. (snip.end - 1 - rule.lead) :
                   doc[q + rule.lead] = rule.regex}
  IN IF starts = {} THEN <<>>
     ELSE LET q == SetMin(starts)
          IN <<MatchTuple(q + rule.lead, rule.lead, rule.name)>> \o
             regex_match(rule, q + rule.lead + 1, snip)

\* get_spans(snippet.doc, assign.span_getter): the spans already extracted
\* on the document under the getter, one per token whose text is the getter
RECURSIVE get_spans(_, _)
get_spans(getter, from) ==
  IF from >= DocLen THEN <<>>
  ELSE (IF doc[from] = getter THEN <<Span(from, from + 1, "match")>>
        ELSE <<>>) \o get_spans(getter, from + 1)

\* the tuples one assign rule finds around the anchor
assigned_list(sp, assign) ==
  LET snip == get_window(sp, assign.window, assign.limit_to_sentence)
  IN IF assign.regex # None
     THEN regex_match(assign, snip.start, snip)
     ELSE LET inside(m) == m.start >= snip.start /\ m.end <= snip.end
              found == SelectSeq(get_spans(assign.span_getter, 0), inside)
          IN [i \in 1 .. Len(found) |->
                [group_span |-> found[i], full_match_span |-> found[i],
                 value_key |-> assign.name]]

\* the loop over the assign rules with a required rule that finds nothing
\* skipped instead of ending assign_one
RECURSIVE assign_loop_skips(_, _, _)
assign_loop_skips(sp, i, acc) ==
  IF i > Len(patterns.assign) THEN [returned |-> FALSE, list |-> acc]
  ELSE assign_loop_skips(sp, i + 1,
                         acc \o assigned_list(sp, patterns.assign[i]))

\* the loop over the assign rules from rule i on; returned is true when a
\* required rule found nothing and assign_one returned
RECURSIVE assign_loop(_, _, _)
assign_loop(sp, i, acc) ==
  IF i > Len(patterns.assign) THEN [returned |-> FALSE, list |-> acc]
  ELSE LET assign == patterns.assign[i]
           found == assigned_list(sp, assign)
       IN IF assign.required /\ found = <<>>
          THEN [returned |-> TRUE, list |-> acc]
          ELSE assign_loop(sp, i + 1, acc \o found)

\* the loop folding all_assigned_list into the AssignDict from entry i on
RECURSIVE fold_loop(_, _, _, _)
fold_loop(list, i, d, rk) ==
  IF i > Len(list)
  THEN [assigned_dict |-> d, replace_key |-> rk, raised |-> None]
  ELSE LET assigned == list[i]
           assign == AssignRule(assigned.value_key)
           rk1 == IF assign.replace_entity THEN assigned.value_key ELSE rk
       IN IF setitem_raises(assigned.value_key)
          THEN [assigned_dict |-> d, replace_key |-> rk1,
                raised |-> "KeyError"]
          ELSE fold_loop(list, i + 1,
                         setitem(d, assigned.value_key, AssignValue(assigned)),
                         rk1)

\* flatten_once over the "span" entries of the dict under a set of keys
flatten_spans(d, keys) ==
  UNION {IF reduce_mode[k] = None THEN SeqRange(d[k].span) ELSE {d[k].span} :
           k \in keys}

\* the closest entity chosen on the signed distance
closest_of_signed(kept, sp) ==
  LET dist(i) == kept[i].start - sp.start
      best == SetMin({dist(i) : i \in 1 .. Len(kept)})
  IN kept[SetMin({i \in 1 .. Len(kept) : dist(i) = best})]

\* min(kept_ents, key=|e.start - span.start|): the first minimum
closest_of(kept, sp) ==
  LET dist(i) == Abs(kept[i].start - sp.start)
      best == SetMin({dist(i) : i \in 1 .. Len(kept)})
  IN kept[SetMin({i \in 1 .. Len(kept) : dist(i) = best})]

\* list.remove: drops the first element equal to x
list_remove(q, x) ==
  LET i0 == SetMin({i \in 1 .. Len(q) : q[i] = x})
  IN [j \in 1 .. (Len(q) - 1) |-> IF j < i0 THEN q[j] ELSE q[j + 1]]

\* the kept entities left in the order of the appends
sort_by_start_skipped(q) == q

\* list.sort(key=start): stable
RECURSIVE sort_by_start(_)
sort_by_start(q) ==
  IF Len(q) = 0 THEN <<>>
  ELSE LET sorted == sort_by_start(SubSeq(q, 1, Len(q) - 1))
           x == q[Len(q)]
           k == Cardinality({i \in 1 .. Len(sorted) :
                               sorted[i].start <= x.start})
       IN SubSeq(sorted, 1, k) \o <<x>> \o SubSeq(sorted, k + 1, Len(sorted))

\* the span from the lowest start to the highest end of a set of spans
cover(spans) ==
  Span(SetMin({e.start : e \in spans}), SetMax({e.end : e \in spans}), "new")

\* the copy of the replacables cut to its first entity
replacables_first_only(d, rk) ==
  LET replacables == d[rk].span
  IN IF reduce_mode[rk] = None THEN <<replacables[1]>> ELSE <<replacables>>

\* the copy of the spans stored under replace_key, as a list
replacables_of(d, rk) ==
  LET replacables == d[rk].span
  IN IF reduce_mode[rk] = None THEN replacables ELSE <<replacables>>

\* the entity replacement with the closest entity removed and the merged
\* span never appended
replace_entities_without_merge(sp, d, rk) ==
  LET kept0 == replacables_of(d, rk)
  IN IF include_assigned
     THEN list_remove(kept0, closest_of(kept0, sp))
     ELSE kept0

\* the entity replacement branch: the kept entities
replace_entities(sp, d, rk) ==
  LET kept0 == replacables_of(d, rk)
  IN IF include_assigned
     THEN LET closest == closest_of(kept0, sp)
              kept1 == list_remove(kept0, closest)
              expandables == flatten_spans(d, DOMAIN d \ {rk})
                               \cup {sp, closest}
          IN sort_by_start(Append(kept1, cover(expandables)))
     ELSE kept0

\* the entity expansion with the anchor left out of the covered spans
expand_entity_without_anchor(sp, d) ==
  LET expandables == flatten_spans(d, DOMAIN d)
  IN IF include_assigned /\ expandables # {}
     THEN <<cover(expandables)>>
     ELSE <<sp>>

\* the entity expansion branch: the kept entities
expand_entity(sp, d) ==
  LET expandables == flatten_spans(d, DOMAIN d)
  IN IF include_assigned /\ expandables # {}
     THEN <<cover(expandables \cup {sp})>>
     ELSE <<sp>>

\* self.label, the label of the spans the component yields
self_label == "contextual"

\* the label and the source attribute of a span before assign_one tags it:
\* a match carries the name of its rule, the anchor and the merged span
\* built from it the name of the source
untagged(e, rk) ==
  [label_ |-> IF e.obj = "match" THEN rk ELSE SourceName, source |-> None]

\* the tagging done before the merged span is built: the merged span keeps
\* the label of the anchor and has no source
tag_entity_before_merge(e, rk) ==
  IF e.obj = "new" THEN untagged(e, rk)
  ELSE [label_ |-> self_label, source |-> SourceName]

\* the label and the source attribute of a kept entity: every kept entity
\* gets the label of the component and the source of the anchor
tag_entity(e, rk) == [label_ |-> self_label, source |-> SourceName]

\* e._.assigned with the first replacement value on every kept entity
assigned_of_first(d, rk, idx) ==
  LET key == IF assign_as_span THEN "value_span" ELSE "value_text"
  IN [k \in DOMAIN d |->
        IF k = rk /\ reduce_mode[k] = None THEN d[k][key][1]
        ELSE d[k][key]]

\* e._.assigned of the idx-th kept entity (idx counts from 0)
assigned_of(d, rk, idx) ==
  LET key == IF assign_as_span THEN "value_span" ELSE "value_text"
  IN [k \in DOMAIN d |->
        IF k = rk /\ reduce_mode[k] = None THEN d[k][key][idx + 1]
        ELSE d[k][key]]

\* the discard test taken only when a replacement was found
discard_unreplaced_inverted(rk) == rk # None /\ self_replace_key # None

\* a replacement was configured for the source but none was found
discard_unreplaced(rk) == rk = None /\ self_replace_key # None

\* what assign_one leaves when it returns without yielding
no_yield(list, d, rk) ==
  [kept_ents |-> <<>>, all_assigned_list |-> list,
   assigned_dict |-> d, replace_key |-> rk, raised |-> None]

assign_one(sp) ==
  IF sp = NoneSpan THEN no_yield(<<>>, EmptyDict, None)
  ELSE
    LET found == assign_loop(sp, 1, <<>>)
    IN IF found.returned THEN no_yield(found.list, EmptyDict, None)
       ELSE
         LET folded == fold_loop(found.list, 1, EmptyDict, None)
             d == folded.assigned_dict
             rk == folded.replace_key
         IN IF folded.raised # None
            THEN [no_yield(found.list, d, rk) EXCEPT !.raised = folded.raised]
            ELSE IF discard_unreplaced(rk)
            THEN no_yield(found.list, d, rk)
            ELSE
              LET kept == IF rk # None THEN replace_entities(sp, d, rk)
                          ELSE expand_entity(sp, d)
              IN [kept_ents |->
                    [i \in 1 .. Len(kept) |->
                       [span |-> kept[i],
                        label_ |-> tag_entity(kept[i], rk).label_,
                        source |-> tag_entity(kept[i], rk).source,
                        assigned |-> assigned_of(d, rk, i - 1)]],
                  all_assigned_list |-> found.list,
                  assigned_dict |-> d,
                  replace_key |-> rk,
                  raised |-> None]

\* what each assign rule extracts, by position in the assign list: the
\* first picks spans already extracted, the others use a regex whose full
\* match starts before its group
ExtractorPool ==
  <<[regex |-> None, span_getter |-> "a", lead |-> 0],
    [regex |-> "b", span_getter |-> None, lead |-> 1],
    [regex |-> "c", span_getter |-> None, lead |-> 0],
    [regex |-> "a", span_getter |-> None, lead |-> 1]>>

AssignWindows == {NoWindow, <<-1, 1>>}

AssignRulesAt(i, w) ==
  {[name |-> NamePool[i],
    regex |-> ExtractorPool[i].regex,
    span_getter |-> ExtractorPool[i].span_getter,
    lead |-> ExtractorPool[i].lead,
    window |-> w,
    limit_to_sentence |-> TRUE,
    reduce_mode |-> m,
    required |-> r,
    replace_entity |-> e] :
     m \in ReduceModes, r \in BOOLEAN, e \in BOOLEAN}

\* the assign lists validation accepts: unique names, at most one rule
\* with replace_entity; the rules of one list share their window
AssignLists ==
  UNION {{q \in [1 .. n -> UNION {AssignRulesAt(i, w) : i \in 1 .. n}] :
            /\ \A i \in 1 .. n : q[i].name = NamePool[i]
            /\ Cardinality({i \in 1 .. n : q[i].replace_entity}) <= 1} :
         n \in 0 .. MaxAssign, w \in AssignWindows}

\* the anchor of the pipeline runs: the middle token of the document
MiddleAnchor == Span(DocLen \div 2, DocLen \div 2 + 1, "anchor")

\* the exclude rule of the pipeline configurations: a "c" right after the
\* anchor vetoes it
VetoRule == [regex |-> "c", window |-> <<1, 2>>, limit_to_sentence |-> TRUE]

\* self.reduce_mode[source] as __init__ builds it
reduce_mode_of(p) ==
  [name \in {p.assign[i].name : i \in 1 .. Len(p.assign)} |->
     (CHOOSE a \in SeqRange(p.assign) : a.name = name).reduce_mode]

\* self.replace_key[source] as __init__ builds it
RECURSIVE replace_key_of(_, _, _)
replace_key_of(p, i, rk) ==
  IF i > Len(p.assign) THEN rk
  ELSE replace_key_of(p, i + 1,
                      IF p.assign[i].replace_entity THEN p.assign[i].name
                      ELSE rk)

Init ==
  /\ pc = "filter_one"
  /\ doc \in Docs
  /\ sent = WholeDoc
  /\ span = MiddleAnchor
  /\ window = NoWindow
  /\ limit_to_sentence = TRUE
  /\ snippet = Span(0, 0, "match")
  /\ window_locals = NoLocals
  /\ patterns \in [exclude : {<<VetoRule>>}, include : {<<>>},
                   assign : AssignLists]
  /\ reduce_mode = reduce_mode_of(patterns)
  /\ self_replace_key = replace_key_of(patterns, 1, None)
  /\ assigned_dict = EmptyDict
  /\ all_assigned_list = <<>>
  /\ include_assigned \in BOOLEAN
  /\ assign_as_span \in BOOLEAN
  /\ filtered = NoneSpan
  /\ replace_key = None
  /\ kept_ents = <<>>
  /\ matcher_runs = <<>>
  /\ raised = None
  /\ ValidationIdle
  /\ ProcessIdle
  /\ ReadIdle

AssignOne ==
  /\ pc = "filtered"
  /\ \E r \in {assign_one(filtered)} :
        /\ kept_ents' = r.kept_ents
        /\ all_assigned_list' = r.all_assigned_list
        /\ assigned_dict' = r.assigned_dict
        /\ replace_key' = r.replace_key
        /\ raised' = r.raised
  /\ pc' = "done"
  /\ UNCHANGED <<doc, sent, span, filtered, reduce_mode, matcher_runs>>
  /\ UNCHANGED <<winVars, cfgVars, valVars, procVars, readVars>>

Next == FilterOne \/ AssignOne

Spec == Init /\ [][Next]_vars

\* --------------------------------------------------------------- process
\* the term of the source
AnchorTerm == "c"

\* self.phrase_matcher(doc, as_spans=True): one anchor per token whose text
\* is the term of the source, in document order
RECURSIVE phrase_matcher(_)
phrase_matcher(from) ==
  IF from >= DocLen THEN <<>>
  ELSE (IF doc[from] = AnchorTerm THEN <<Span(from, from + 1, "anchor")>>
        ELSE <<>>) \o phrase_matcher(from + 1)

\* the reduce modes of the document runs: reduce_mode is an optional
\* string, validation accepts the modes of AssignDict and any other
\* string
ProcessReduceModes == {None, "keep_first", "keep_all"}

\* the window of the assign rules of the document runs
ProcessWindow == <<-1, 1>>

\* the assign lists of the document runs: lists validation accepts, any
\* rule with any of the reduce modes of the runs
ProcessAssignLists ==
  {[i \in 1 .. Len(q) |->
      IF i \in S THEN [q[i] EXCEPT !.reduce_mode = "keep_all"] ELSE q[i]] :
     q \in {l \in AssignLists :
              \A i \in 1 .. Len(l) :
                /\ l[i].window = ProcessWindow
                /\ l[i].reduce_mode \in ProcessReduceModes},
     S \in SUBSET (1 .. MaxAssign)}

\* the assign rules whose window assign_one resolves from rule i on: every
\* rule up to the first required one that finds nothing
RECURSIVE assign_runs(_, _)
assign_runs(sp, i) ==
  IF i > Len(patterns.assign) THEN {}
  ELSE {i} \cup
       (IF /\ patterns.assign[i].required
           /\ assigned_list(sp, patterns.assign[i]) = <<>>
        THEN {}
        ELSE assign_runs(sp, i + 1))

\* the rules whose window process_one resolves for an anchor
resolved_rules(sp, f) ==
  {IF run.kind = "exclude" THEN patterns.exclude[run.rule]
   ELSE patterns.include[run.rule] : run \in SeqRange(filter_runs(sp))}
  \cup (IF f = NoneSpan THEN {}
        ELSE {patterns.assign[i] : i \in assign_runs(sp, 1)})

\* assign_one relabels the anchor itself: the anchor is the span the
\* expansion branch keeps
relabelled(sp, r) ==
  /\ r.raised = None
  /\ r.replace_key = None
  /\ r.kept_ents # <<>>
  /\ r.kept_ents[1].span = sp

\* the entries the calls of get_window for an anchor add to the cache: one
\* per key that was not found; the key holds the anchor, so its label is
\* the one assign_one leaves on the anchor
new_entries(sp, f, r) ==
  {[key |-> [cache_key(sp, rule.window, rule.limit_to_sentence)
               EXCEPT !.label = IF relabelled(sp, r) THEN self_label
                                ELSE SourceName],
    value |-> get_window(sp, rule.window, rule.limit_to_sentence)] :
     rule \in {x \in resolved_rules(sp, f) :
                 cache_hits(cache_key(sp, x.window, x.limit_to_sentence))
                   = {}}}

\* lru_cache(64)
maxsize == 64

\* the caches lru_cache can hold after the insertion of new entries: all
\* the entries while they are at most maxsize, the new ones and some of the
\* older ones otherwise
cache_insert(c, new) ==
  IF Cardinality(c \cup new) <= maxsize THEN {c \cup new}
  ELSE {k \in SUBSET (c \cup new) : new \subseteq k /\ Cardinality(k) = maxsize}

\* the entries the cache holds after a document of the same length with
\* one-token sentences was processed: same anchors, same windows, other
\* snippets
OtherDocCache ==
  {[key |-> [cache_key(Span(p, p + 1, "anchor"), w, TRUE)
               EXCEPT !.doc = OtherDoc],
    value |-> DocSlice(Max(p + w[1], p), Min(p + 1 + w[2], p + 1))] :
     p \in Tokens, w \in {ProcessWindow, VetoRule.window}}

InitProcess ==
  /\ pc = "process"
  /\ doc \in Docs
  /\ sent = WholeDoc
  /\ span = NoneSpan
  /\ window = NoWindow
  /\ limit_to_sentence = TRUE
  /\ snippet = Span(0, 0, "match")
  /\ window_locals = NoLocals
  /\ patterns \in [exclude : {<<VetoRule>>}, include : {<<>>},
                   assign : ProcessAssignLists]
  /\ reduce_mode = reduce_mode_of(patterns)
  /\ self_replace_key = replace_key_of(patterns, 1, None)
  /\ assigned_dict = EmptyDict
  /\ all_assigned_list = <<>>
  /\ include_assigned \in BOOLEAN
  /\ assign_as_span = TRUE
  /\ filtered = NoneSpan
  /\ replace_key = None
  /\ kept_ents = <<>>
  /\ matcher_runs = <<>>
  /\ raised = None
  /\ ValidationIdle
  /\ ProcessIdle
  /\ ReadIdle

\* process up to its loop: the matchers give the anchors of the document
Process ==
  /\ pc = "process"
  /\ process_spans' = phrase_matcher(0)
  /\ output' = <<>>
  /\ raised' = None
  /\ pc' = "process_one"
  /\ UNCHANGED <<doc, sent, span, earlier_outputs, cache>>
  /\ UNCHANGED <<filtered, replace_key, kept_ents, matcher_runs>>
  /\ UNCHANGED <<winVars, dictVars, cfgVars, valVars, readVars>>

\* one pass of the loop of process: process_one on the next anchor; what it
\* yields goes to the output, an exception ends process
ProcessOne ==
  /\ pc = "process_one"
  /\ process_spans # <<>>
  /\ \E a \in {Head(process_spans)} :
     \E f \in {filter_one(a)} :
     \E r \in {assign_one(f)} :
        /\ span' = a
        /\ filtered' = f
        /\ matcher_runs' = filter_runs(a)
        /\ kept_ents' = r.kept_ents
        /\ all_assigned_list' = r.all_assigned_list
        /\ assigned_dict' = r.assigned_dict
        /\ replace_key' = r.replace_key
        /\ raised' = r.raised
        /\ output' = output \o [i \in 1 .. Len(r.kept_ents) |->
                                  [anchor |-> a, ent |-> r.kept_ents[i]]]
        /\ cache' \in cache_insert(cache, new_entries(a, f, r))
        /\ pc' = IF r.raised = None THEN "process_one" ELSE "raised"
  /\ process_spans' = Tail(process_spans)
  /\ UNCHANGED <<doc, sent, reduce_mode, earlier_outputs>>
  /\ UNCHANGED <<winVars, cfgVars, valVars, readVars>>

\* the loop of process has handled every anchor
ProcessReturn ==
  /\ pc = "process_one"
  /\ process_spans = <<>>
  /\ pc' = "returned"
  /\ UNCHANGED <<doc, sent, span>>
  /\ UNCHANGED <<winVars, dictVars, cfgVars, runVars, valVars, procVars,
               readVars>>

\* the component is called on the same document once more
ProcessAgain ==
  /\ pc \in {"returned", "raised"}
  /\ Len(earlier_outputs) < MaxReruns
  /\ earlier_outputs' =
       Append(earlier_outputs, [output |-> output, raised |-> raised])
  /\ pc' = "process"
  /\ UNCHANGED <<doc, sent, span, process_spans, output, cache>>
  /\ UNCHANGED <<winVars, dictVars, cfgVars, runVars, valVars, readVars>>

\* between two runs the component processes another document: its windows
\* enter the cache and the entries of the cache may be evicted
OtherDocument ==
  /\ pc = "process"
  /\ earlier_outputs # <<>>
  /\ \E c \in {{}, cache \cup OtherDocCache} :
       /\ c # cache
       /\ cache' = c
  /\ UNCHANGED <<pc, doc, sent, span, process_spans, output, earlier_outputs>>
  /\ UNCHANGED <<winVars, dictVars, cfgVars, runVars, valVars, readVars>>

NextProcess ==
  Process \/ ProcessOne \/ ProcessReturn \/ ProcessAgain \/ OtherDocument

SpecProcess == InitProcess /\ [][NextProcess]_vars

\* ----------------------------------------------- assign_one: properties
\* what the i-th assign rule finds in its window around the anchor
Found(i) == assigned_list(span, patterns.assign[i])

NumAssign == Len(patterns.assign)

RequiredMiss ==
  \E i \in 1 .. NumAssign : patterns.assign[i].required /\ Found(i) = <<>>

\* the full-match spans the AssignDict holds under a key
StoredSpans(k) ==
  IF k \notin DOMAIN assigned_dict THEN {}
  ELSE IF reduce_mode[k] = None THEN SeqRange(assigned_dict[k].span)
  ELSE {assigned_dict[k].span}

HeldSpans(keys) == UNION {StoredSpans(k) : k \in keys}

\* the spans assign_one yielded, in order
Yielded == [i \in 1 .. Len(kept_ents) |-> kept_ents[i].span]

Count(q, x) == Cardinality({i \in 1 .. Len(q) : q[i] = x})

SameBag(q, r) ==
  \A x \in SeqRange(q) \cup SeqRange(r) : Count(q, x) = Count(r, x)

LowestStart(spans) == SetMin({e.start : e \in spans})

HighestEnd(spans) == SetMax({e.end : e \in spans})

\* C2: when a required assign rule finds nothing in its window, assign_one
\* yields no span for the anchor.
C2_RequiredMissYieldsNothing ==
  (pc = "done" /\ RequiredMiss) => kept_ents = <<>>

\* the second rule is required and finds nothing, the first one matched,
\* and nothing else would have dropped the anchor
C2_Witness ==
  /\ pc = "done"
  /\ filtered # NoneSpan
  /\ NumAssign = 2
  /\ self_replace_key = None
  /\ Found(1) # <<>>
  /\ patterns.assign[2].required
  /\ Found(2) = <<>>
  /\ kept_ents = <<>>

\* C3: when the source has a replace_entity rule and that rule found no
\* candidate, assign_one yields no span for the anchor.
C3_ReplaceMissYieldsNothing ==
  (/\ pc = "done"
   /\ \E i \in 1 .. NumAssign :
        patterns.assign[i].replace_entity /\ Found(i) = <<>>)
  => kept_ents = <<>>

\* the replace rule found nothing while the other rule matched and no
\* required rule missed
C3_Witness ==
  /\ pc = "done"
  /\ filtered # NoneSpan
  /\ ~RequiredMiss
  /\ \E i, j \in 1 .. NumAssign :
       /\ patterns.assign[i].replace_entity
       /\ Found(i) = <<>>
       /\ Found(j) # <<>>
  /\ assigned_dict # EmptyDict
  /\ kept_ents = <<>>

\* C4: without replace_entity rule, an anchor that passes the filter and
\* the required rules yields one span: from the lowest start to the highest
\* end of the stored assignment spans and the anchor when include_assigned
\* is set and a span is stored, the anchor itself otherwise.
C4_ExpansionYieldsOneSpan ==
  (/\ pc = "done"
   /\ self_replace_key = None
   /\ filtered # NoneSpan
   /\ ~RequiredMiss)
  => /\ Len(kept_ents) = 1
     /\ LET held == HeldSpans(AssignNames)
            e == kept_ents[1].span
        IN IF include_assigned /\ held # {}
           THEN /\ e.start = LowestStart(held \cup {span})
                /\ e.end = HighestEnd(held \cup {span})
           ELSE e = span

\* the yielded span starts before the anchor and ends after it
C4_Witness ==
  /\ pc = "done"
  /\ self_replace_key = None
  /\ include_assigned
  /\ Len(kept_ents) = 1
  /\ kept_ents[1].span.start < span.start
  /\ kept_ents[1].span.end > span.end
  /\ Cardinality(HeldSpans(AssignNames)) >= 2

\* the replace candidates the AssignDict holds, as a list
Replacables ==
  IF reduce_mode[replace_key] = None THEN assigned_dict[replace_key].span
  ELSE <<assigned_dict[replace_key].span>>

Distance(e) == Abs(e.start - span.start)

\* the index of the first replace candidate at the least distance of the
\* anchor's start
ClosestIndex ==
  CHOOSE i \in 1 .. Len(Replacables) :
    /\ \A j \in 1 .. Len(Replacables) :
         Distance(Replacables[i]) <= Distance(Replacables[j])
    /\ \A j \in 1 .. (i - 1) :
         Distance(Replacables[j]) > Distance(Replacables[i])

OtherReplacables ==
  [j \in 1 .. (Len(Replacables) - 1) |->
     IF j < ClosestIndex THEN Replacables[j] ELSE Replacables[j + 1]]

MergedSpans ==
  HeldSpans(AssignNames \ {replace_key}) \cup {span, Replacables[ClosestIndex]}

\* C5: on the replacement path with include_assigned, the yielded spans are
\* the replace candidates other than the closest one, each with its own
\* bounds, and one new span from the lowest start to the highest end of the
\* spans of the other keys, the anchor and the closest candidate.
C5_ReplaceMergesClosest ==
  (pc = "done" /\ replace_key # None /\ include_assigned)
  => SameBag(Yielded,
             Append(OtherReplacables,
                    Span(LowestStart(MergedSpans), HighestEnd(MergedSpans),
                         "new")))

\* two replace candidates, the closest one is not the first, another key
\* matched, and the farther candidate is yielded beside the merged span
C5_Witness ==
  /\ pc = "done"
  /\ replace_key # None
  /\ include_assigned
  /\ Len(Replacables) = 2
  /\ ClosestIndex = 2
  /\ HeldSpans(AssignNames \ {replace_key}) # {}
  /\ Len(kept_ents) = 2
  /\ \E i \in 1 .. 2 : Yielded[i] = Replacables[1]
  /\ \A i \in 1 .. 2 : Yielded[i] # Replacables[2]

\* C6: on the replacement path without include_assigned, the yielded spans
\* are the full-match spans stored under replace_key, in their order, and
\* the anchor is not yielded.
C6_ReplaceYieldsCandidates ==
  (pc = "done" /\ replace_key # None /\ ~include_assigned)
  => /\ Yielded = Replacables
     /\ \A i \in 1 .. Len(kept_ents) : kept_ents[i].span.obj # "anchor"

\* two candidates of a list-mode replace rule are yielded
C6_Witness ==
  /\ pc = "done"
  /\ replace_key # None
  /\ ~include_assigned
  /\ reduce_mode[replace_key] = None
  /\ Len(kept_ents) = 2
  /\ Yielded[1] # Yielded[2]
  /\ Yielded[1] # span

ValueKey == IF assign_as_span THEN "value_span" ELSE "value_text"

\* C7: in the assigned map of the i-th kept span the entry of replace_key is
\* the i-th stored value when replace_key is in list mode and the stored
\* value otherwise.
C7_ReplaceKeyValuePerSpan ==
  (pc = "done" /\ replace_key # None)
  => \A i \in 1 .. Len(kept_ents) :
       /\ replace_key \in DOMAIN kept_ents[i].assigned
       /\ kept_ents[i].assigned[replace_key] =
            IF reduce_mode[replace_key] = None
            THEN assigned_dict[replace_key][ValueKey][i]
            ELSE assigned_dict[replace_key][ValueKey]

\* two kept spans of a list-mode replace rule, the second one carries the
\* second stored value, which differs from the first
C7_Witness ==
  /\ pc = "done"
  /\ replace_key # None
  /\ reduce_mode[replace_key] = None
  /\ Len(kept_ents) = 2
  /\ assign_as_span
  /\ kept_ents[2].assigned[replace_key] = assigned_dict[replace_key].value_span[2]
  /\ assigned_dict[replace_key].value_span[1] # assigned_dict[replace_key].value_span[2]

\* the number of values the AssignDict holds under replace_key: the length
\* of the value list in list mode, one record otherwise
StoredCount ==
  IF reduce_mode[replace_key] = None
  THEN Len(assigned_dict[replace_key][ValueKey])
  ELSE 1

\* C21: on the replacement path, with or without include_assigned, the
\* number of yielded spans is the number of candidates stored under
\* replace_key (one in keep_first and keep_last mode, the length of the list
\* in list mode), so every index assign_one uses into the value list of
\* replace_key is in range.
C21_YieldedCountIsStoredCount ==
  (pc = "done" /\ replace_key # None)
  => /\ Len(kept_ents) = StoredCount
     /\ Len(kept_ents) = Len(Replacables)
     /\ reduce_mode[replace_key] # None => Len(kept_ents) = 1
     /\ reduce_mode[replace_key] = None
          => \A i \in 1 .. Len(kept_ents) :
               i \in DOMAIN assigned_dict[replace_key][ValueKey]

\* two candidates of a list-mode replace rule with include_assigned: the
\* closest is merged, and two spans are yielded
C21_Witness ==
  /\ pc = "done"
  /\ replace_key # None
  /\ include_assigned
  /\ reduce_mode[replace_key] = None
  /\ StoredCount = 2
  /\ Len(kept_ents) = 2
  /\ \E i \in 1 .. 2 : kept_ents[i].span.obj = "new"

\* ------------------------------------------- assign_one: any anchor
\* the assign lists with a replace_entity rule in list mode
ListReplaceLists ==
  {q \in AssignLists :
     \E i \in 1 .. Len(q) :
       q[i].replace_entity /\ q[i].reduce_mode = None}

\* process_one on one anchor anywhere in the document, for a source whose
\* replace_entity rule keeps the list of its matches
InitReplace ==
  /\ pc = "filter_one"
  /\ doc \in Docs
  /\ sent = WholeDoc
  /\ span \in OneTokenAnchors
  /\ window = NoWindow
  /\ limit_to_sentence = TRUE
  /\ snippet = Span(0, 0, "match")
  /\ window_locals = NoLocals
  /\ patterns \in [exclude : {<<VetoRule>>}, include : {<<>>},
                   assign : ListReplaceLists]
  /\ reduce_mode = reduce_mode_of(patterns)
  /\ self_replace_key = replace_key_of(patterns, 1, None)
  /\ assigned_dict = EmptyDict
  /\ all_assigned_list = <<>>
  /\ include_assigned \in BOOLEAN
  /\ assign_as_span \in BOOLEAN
  /\ filtered = NoneSpan
  /\ replace_key = None
  /\ kept_ents = <<>>
  /\ matcher_runs = <<>>
  /\ raised = None
  /\ ValidationIdle
  /\ ProcessIdle
  /\ ReadIdle

SpecReplace == InitReplace /\ [][Next]_vars

\* span e lies inside span f
Inside(e, f) == f.start <= e.start /\ e.end <= f.end

\* the indexes of the replace candidates equal to a yielded span
CandidatesOf(e) ==
  {j \in 1 .. Len(Replacables) : Replacables[j] = e}

\* the value of the j-th replace candidate
StoredValue(j) == assigned_dict[replace_key][ValueKey][j]

\* C22: on the replacement path in list mode, a yielded span that is a
\* replace candidate carries under replace_key the value extracted from
\* that candidate, whose value span lies inside the yielded span, and the
\* merged span carries the value of the closest candidate, the one it
\* absorbed.
C22_ValueOfSameCandidate ==
  (pc = "done" /\ replace_key # None /\ reduce_mode[replace_key] = None)
  => \A i \in 1 .. Len(kept_ents) :
       IF kept_ents[i].span.obj = "new"
       THEN kept_ents[i].assigned[replace_key] = StoredValue(ClosestIndex)
       ELSE \E j \in CandidatesOf(kept_ents[i].span) :
              /\ kept_ents[i].assigned[replace_key] = StoredValue(j)
              /\ Inside(assigned_dict[replace_key].value_span[j],
                        kept_ents[i].span)

\* ------------------------------------------------------ AssignDict: reads
\* the dict after a read that stores the default under an absent key
after_getitem_stores_default(d, key) == dict_setitem(d, key, getitem(d, key))

\* the dict after dict.__getitem__: __missing__ returns its default and
\* stores nothing
after_getitem(d, key) == d

\* a read of the AssignDict assign_one filled, under a key of its
\* reduce_mode
GetItem ==
  /\ pc \in {"done", "read"}
  /\ \E key \in DOMAIN reduce_mode :
       /\ read_key' = key
       /\ read_value' = getitem(assigned_dict, key)
       /\ assigned_dict' = after_getitem(assigned_dict, key)
  /\ pc' = "read"
  /\ UNCHANGED <<doc, sent, span, reduce_mode, all_assigned_list>>
  /\ UNCHANGED <<winVars, cfgVars, runVars, valVars, procVars>>

NextRead == FilterOne \/ AssignOne \/ GetItem

SpecRead == Init /\ [][NextRead]_vars

\* the assign keys that received a candidate for the anchor
MatchedKeys ==
  {all_assigned_list[j].value_key : j \in 1 .. Len(all_assigned_list)}

\* the empty default of a key: three empty lists in list mode, an empty
\* record otherwise
EmptyDefault(key) ==
  IF reduce_mode[key] = None
  THEN [span |-> <<>>, value_span |-> <<>>, value_text |-> <<>>]
  ELSE [k \in {} |-> None]

\* a read returns the stored record, or the empty default of an absent key,
\* and leaves the AssignDict as it was
ReadLeavesDict ==
  pc' = "read"
  => /\ assigned_dict' = assigned_dict
     /\ read_value' = IF read_key' \in DOMAIN assigned_dict
                      THEN assigned_dict[read_key']
                      ELSE EmptyDefault(read_key')

\* the assigned map of every yielded span has exactly the keys that
\* received a candidate
AssignedKeysAreMatchedKeys ==
  pc \in {"done", "read"}
  => \A i \in 1 .. Len(kept_ents) :
       DOMAIN kept_ents[i].assigned = MatchedKeys

\* C23: reading an absent key of an AssignDict returns the empty default of
\* the key's mode (three empty lists in list mode, an empty record
\* otherwise) and does not insert the key, so reads leave the AssignDict
\* unchanged; the assigned map of a yielded span holds exactly the assign
\* keys that received a candidate for the anchor, and no entry for a rule
\* that never matched.
C23_ReadsLeaveDictAndKeys ==
  []AssignedKeysAreMatchedKeys /\ [][ReadLeavesDict]_vars

\* a span was yielded with an assigned map that lacks the key of a rule
\* that never matched, and the read of that absent list-mode key returned
\* three empty lists without inserting it
C23_Witness ==
  /\ pc = "read"
  /\ kept_ents # <<>>
  /\ MatchedKeys # {}
  /\ read_key \notin MatchedKeys
  /\ reduce_mode[read_key] = None
  /\ read_value = [span |-> <<>>, value_span |-> <<>>, value_text |-> <<>>]
  /\ read_key \notin DOMAIN assigned_dict
  /\ read_key \notin DOMAIN kept_ents[1].assigned

\* ------------------------------------------------------ normalize_window
\* the values a window is configured with: None, an integer, a list of
\* integers or a pair of integers
RawNone == [kind |-> "None", items |-> <<>>]

RawInts == [kind : {"int"}, items : {<<n>> : n \in -MaxOffset .. MaxOffset}]

RawLists ==
  [kind : {"list"},
   items : UNION {[1 .. n -> -MaxOffset .. MaxOffset] : n \in 0 .. MaxList}]

RawTuples ==
  [kind : {"tuple"},
   items : (-MaxOffset .. MaxOffset) \X (-MaxOffset .. MaxOffset)]

RawWindows == {RawNone} \cup RawInts \cup RawLists \cup RawTuples

\* normalize_window did not return: an assertion failed
rejected_window == [raised |-> "AssertionError", value |-> NoWindow]

\* normalize_window without its last assertion
normalize_window_unchecked(v) ==
  IF v.kind = "None" THEN [raised |-> None, value |-> NoWindow]
  ELSE IF v.kind = "list" /\ Len(v.items) # 2 THEN rejected_window
  ELSE IF v.kind = "int"
       THEN IF v.items[1] = 0 THEN rejected_window
            ELSE IF v.items[1] < 0
                 THEN [raised |-> None, value |-> <<v.items[1], 0>>]
                 ELSE [raised |-> None, value |-> <<0, v.items[1]>>]
  ELSE [raised |-> None, value |-> <<v.items[1], v.items[2]>>]

\* normalize_window: the exception raised, if any, and the value returned
normalize_window(v) ==
  IF v.kind = "None" THEN [raised |-> None, value |-> NoWindow]
  ELSE IF v.kind = "list" /\ Len(v.items) # 2 THEN rejected_window
  ELSE IF v.kind = "int"
       THEN IF v.items[1] = 0 THEN rejected_window
            ELSE IF v.items[1] < 0
                 THEN [raised |-> None, value |-> <<v.items[1], 0>>]
                 ELSE [raised |-> None, value |-> <<0, v.items[1]>>]
  ELSE IF v.items[1] < v.items[2]
       THEN [raised |-> None, value |-> <<v.items[1], v.items[2]>>]
       ELSE rejected_window

InitNormalize ==
  /\ pc = "normalize_window"
  /\ doc = BlankDoc
  /\ sent = [start |-> 0, end |-> DocLen]
  /\ span = Span(0, 1, "anchor")
  /\ window = NoWindow
  /\ limit_to_sentence = TRUE
  /\ snippet = Span(0, 0, "match")
  /\ window_locals = NoLocals
  /\ reduce_mode = EmptyDict
  /\ assigned_dict = EmptyDict
  /\ all_assigned_list = <<>>
  /\ PipelineIdle
  /\ raw_window \in RawWindows
  /\ full_config = <<>>
  /\ ProcessIdle
  /\ ReadIdle

\* the validation of the window field of a rule: the rule stores the value
\* normalize_window returns
NormalizeWindow ==
  /\ pc = "normalize_window"
  /\ LET r == normalize_window(raw_window)
     IN /\ window' = r.value
        /\ raised' = r.raised
  /\ pc' = "done"
  /\ UNCHANGED <<doc, sent, span, limit_to_sentence, snippet, window_locals>>
  /\ UNCHANGED <<filtered, replace_key, kept_ents, matcher_runs>>
  /\ UNCHANGED <<dictVars, cfgVars, valVars, procVars, readVars>>

NextNormalize == NormalizeWindow

SpecNormalize == InitNormalize /\ [][NextNormalize]_vars

\* C13: normalize_window leaves None absent, turns a negative integer v
\* into (v, 0) and a positive one into (0, v), rejects 0, turns a list of
\* two integers into the pair, rejects a list of another length, and
\* accepts a pair (b, a), from a list or not, only if b < a; so a stored
\* window is absent or a pair with before < after.
C13_NormalizedWindow ==
  pc = "done" =>
    LET n == Len(raw_window.items)
        item(i) == raw_window.items[i]
        accepted(w) == raised = None /\ window = w
        is_rejected == raised # None
    IN /\ raw_window.kind = "None" => accepted(NoWindow)
       /\ (raw_window.kind = "int" /\ item(1) < 0) => accepted(<<item(1), 0>>)
       /\ (raw_window.kind = "int" /\ item(1) > 0) => accepted(<<0, item(1)>>)
       /\ (raw_window.kind = "int" /\ item(1) = 0) => is_rejected
       /\ (raw_window.kind = "list" /\ n # 2) => is_rejected
       /\ (raw_window.kind \in {"list", "tuple"} /\ n = 2) =>
            IF item(1) < item(2) THEN accepted(<<item(1), item(2)>>)
            ELSE is_rejected
       /\ raised = None =>
            (window = NoWindow \/ (Len(window) = 2 /\ window[1] < window[2]))

\* a list of two integers is stored as the pair
C13_Witness ==
  /\ pc = "done"
  /\ raw_window.kind = "list"
  /\ Len(raw_window.items) = 2
  /\ raw_window.items[1] < 0
  /\ raised = None
  /\ window = <<raw_window.items[1], raw_window.items[2]>>

\* --------------------------------------------------------- configuration
\* the labels a source can be given
SourceLabels == {SourceName, "other"}

\* an assign list as it is configured: names and replace_entity flags
RawAssignLists ==
  UNION {[1 .. n -> [name : AssignNames, replace_entity : BOOLEAN]] :
           n \in 0 .. MaxAssign}

\* a configuration as it is handed to the component: a list of sources
RawConfigs ==
  UNION {[1 .. n -> [source : SourceLabels, assign : RawAssignLists]] :
           n \in 0 .. MaxSources}

\* AssignModel.name_uniqueness: true when the assertion passes
name_uniqueness(v) ==
  LET names == [i \in 1 .. Len(v) |-> v[i].name]
  IN Len(names) = Cardinality(SeqRange(names))

\* replace_uniqueness letting two replace_entity rules through
replace_uniqueness_off_by_one(v) ==
  LET replace == SelectSeq(v, LAMBDA item : item.replace_entity)
  IN Len(replace) <= 2

\* AssignModel.replace_uniqueness: true when the assertion passes
replace_uniqueness(v) ==
  LET replace == SelectSeq(v, LAMBDA item : item.replace_entity)
  IN Len(replace) <= 1

\* FullConfig.source_uniqueness: true when the assertion passes
source_uniqueness(v) ==
  LET sources == [i \in 1 .. Len(v) |-> v[i].source]
  IN Len(sources) = Cardinality(SeqRange(sources))

\* the validators of AssignModel, in the order __get_validators__ yields
\* them
assign_validators(v) == name_uniqueness(v) /\ replace_uniqueness(v)

\* the validators of FullConfig: the validation of every source, with its
\* assign list, then source_uniqueness; the exception raised, if any
full_config_validators(v) ==
  IF /\ \A i \in 1 .. Len(v) : assign_validators(v[i].assign)
     /\ source_uniqueness(v)
  THEN None
  ELSE "ValidationError"

InitConfig ==
  /\ pc = "validate"
  /\ doc = BlankDoc
  /\ sent = [start |-> 0, end |-> DocLen]
  /\ span = Span(0, 1, "anchor")
  /\ window = NoWindow
  /\ limit_to_sentence = TRUE
  /\ snippet = Span(0, 0, "match")
  /\ window_locals = NoLocals
  /\ reduce_mode = EmptyDict
  /\ assigned_dict = EmptyDict
  /\ all_assigned_list = <<>>
  /\ PipelineIdle
  /\ raw_window = NoWindow
  /\ full_config \in RawConfigs
  /\ ProcessIdle
  /\ ReadIdle

\* the validation of the patterns argument at construction
ValidateConfig ==
  /\ pc = "validate"
  /\ raised' = full_config_validators(full_config)
  /\ pc' = "done"
  /\ UNCHANGED <<doc, sent, span>>
  /\ UNCHANGED <<filtered, replace_key, kept_ents, matcher_runs>>
  /\ UNCHANGED <<winVars, dictVars, cfgVars, valVars, procVars, readVars>>

NextConfig == ValidateConfig

SpecConfig == InitConfig /\ [][NextConfig]_vars

\* two sources of the configuration carry the same label
DuplicateSource ==
  \E i, j \in 1 .. Len(full_config) :
    i # j /\ full_config[i].source = full_config[j].source

\* two assign rules of one source carry the same name
DuplicateName ==
  \E s \in 1 .. Len(full_config) :
    \E i, j \in 1 .. Len(full_config[s].assign) :
      i # j /\ full_config[s].assign[i].name = full_config[s].assign[j].name

\* two assign rules of one source are marked replace_entity
SeveralReplace ==
  \E s \in 1 .. Len(full_config) :
    \E i, j \in 1 .. Len(full_config[s].assign) :
      /\ i # j
      /\ full_config[s].assign[i].replace_entity
      /\ full_config[s].assign[j].replace_entity

\* C14: validation rejects a configuration exactly when two sources share
\* a label, two assign rules of one source share a name, or more than one
\* assign rule of one source is marked replace_entity.
C14_ValidationRejectsIff ==
  pc = "done" =>
    (raised # None <=> (DuplicateSource \/ DuplicateName \/ SeveralReplace))

\* two sources with the same two rule names and one replace_entity rule
\* each pass validation
C14_Witness ==
  /\ pc = "done"
  /\ Len(full_config) = 2
  /\ \A s \in 1 .. 2 :
       /\ Len(full_config[s].assign) = 2
       /\ full_config[s].assign[1].name = full_config[1].assign[1].name
       /\ full_config[s].assign[2].replace_entity
  /\ raised = None

\* ----------------------------------------------------- process: properties
\* an assign rule finds nothing around an anchor
FindsNothing(a, i) == assigned_list(a, patterns.assign[i]) = <<>>

\* process_one rejects an anchor: an exclude rule matches, an include rule
\* does not, a required rule or the replace_entity rule finds nothing
Rejected(a) ==
  \/ \E i \in 1 .. Len(patterns.exclude) :
       has_match(patterns.exclude[i], rule_window(a, patterns.exclude[i]))
  \/ \E i \in 1 .. Len(patterns.include) :
       ~has_match(patterns.include[i], rule_window(a, patterns.include[i]))
  \/ \E i \in 1 .. Len(patterns.assign) :
       /\ patterns.assign[i].required \/ patterns.assign[i].replace_entity
       /\ FindsNothing(a, i)

\* the spans of the output that come from an anchor
YieldedFor(a) == SelectSeq(output, LAMBDA o : o.anchor = a)

\* C11: with a configuration validation accepts, process never raises; a
\* rejected anchor yields no span and every other anchor of the document,
\* the ones after a rejected anchor included, has its spans in the output.
C11_NeverRaises ==
  /\ raised = None
  /\ pc \in {"returned", "raised"} =>
       \A a \in SeqRange(phrase_matcher(0)) :
         Rejected(a) <=> YieldedFor(a) = <<>>

C15_YieldedTagged ==
  pc = "done" =>
    \A i \in 1 .. Len(kept_ents) :
      /\ kept_ents[i].label_ = self_label
      /\ kept_ents[i].source = SourceName

\* the replacement branch yields a candidate and, after it, the span
\* merged from the anchor and the closest candidate
C15_Witness ==
  /\ pc = "done"
  /\ replace_key # None
  /\ include_assigned
  /\ Len(kept_ents) = 2
  /\ kept_ents[1].span.obj = "match"
  /\ kept_ents[2].span.obj = "new"
  /\ kept_ents[2].label_ = self_label

\* C20: on the replacement branch with include_assigned the kept spans are
\* yielded in non-decreasing order of their start.
C20_YieldedInStartOrder ==
  (pc = "done" /\ replace_key # None /\ include_assigned) =>
    \A i, j \in 1 .. Len(kept_ents) :
      i < j => kept_ents[i].span.start <= kept_ents[j].span.start

\* the merged span, appended last, starts before a remaining candidate and
\* is yielded first
C20_Witness ==
  /\ pc = "done"
  /\ replace_key # None
  /\ include_assigned
  /\ Len(kept_ents) = 2
  /\ kept_ents[1].span.obj = "new"
  /\ kept_ents[1].span.start < kept_ents[2].span.start

====
